---- MODULE Spec2Model ----
(***************************************************************************)
(* A model of src/utils.py: helper functions scripted against a host       *)
(* application's object graph (collections, objects, node trees, render    *)
(* devices, shape keys).  Each function of the file has its own            *)
(* specification (SpecSearch, SpecCopy, ...); the host objects a function  *)
(* reads or writes are the variables of its group.                         *)
(***************************************************************************)
EXTENDS Integers, Sequences, FiniteSets, TLC

VARIABLES
    \* search: the tree, the predicate, the elements' truth values, the call
    get_children, is_target, falsy, s_call, s_ret, s_evals,
    \* get_node_of_type: tree.nodes, the call, its result
    tree_nodes, n_call, n_ret,
    \* find_shape_key_container: bpy.data.shape_keys, each object's data,
    \* the objects it was called on, the results
    shape_keys, obj_data, k_called, k_ret,
    \* get_link: node.inputs, node.outputs, the call, its outcome
    inputs, outputs, l_call, l_ret,
    \* configure_cycles: context.scene.render.engine, context.scene.cycles,
    \* the preferences' compute_device_type and devices, the call
    render_engine, cycles_settings, compute_device_type, devices, c_call,
    \* copy_collection: bpy.data.collections, bpy.data.objects and the data
    \* blocks the objects use (a handle is a place in its sequence); the
    \* frames of the running call and its state; the arguments and the data
    \* as they were when the call was made
    bpy_collections, bpy_objects, bpy_meshes, stack, cp_state, cp_call, cp_before

searchVars == <<get_children, is_target, falsy, s_call, s_ret, s_evals>>
nodeVars == <<tree_nodes, n_call, n_ret>>
keyVars == <<shape_keys, obj_data, k_called, k_ret>>
linkVars == <<inputs, outputs, l_call, l_ret>>
cyclesVars == <<render_engine, cycles_settings, compute_device_type, devices, c_call>>
copyVars == <<bpy_collections, bpy_objects, bpy_meshes, stack, cp_state, cp_call, cp_before>>
notCopyVars == <<searchVars, nodeVars, keyVars, linkVars, cyclesVars>>
vars == <<searchVars, nodeVars, keyVars, linkVars, cyclesVars, copyVars>>

\* Python's None, as a result; every element and handle is a number >= 0.
None == -1

\* The elements of a set of numbers, ascending.
RECURSIVE SortedSeq(_)
SortedSeq(S) ==
    IF S = {} THEN <<>>
    ELSE LET m == CHOOSE x \in S : \A y \in S : x <= y
         IN <<m>> \o SortedSeq(S \ {m})

Range(s) == {s[i] : i \in 1..Len(s)}

(***************************************************************************)
(* search (src/utils.py 23-42)                                             *)
(***************************************************************************)
MaxNodes == 4
Nodes == 0..(MaxNodes - 1)

\* The finite trees over Nodes: node 0 is the root, every other node hangs
\* under an earlier one, children are yielded in ascending order.
TreeParents == {p \in [1..(MaxNodes - 1) -> Nodes] : \A i \in DOMAIN p : p[i] < i}
ChildrenOf(p) == [n \in Nodes |-> SortedSeq({i \in DOMAIN p : p[i] = n})]

\* bool(x) of a result: None is false, and so is an element whose truth
\* value is false.
Truthy(x) == x # None /\ x \notin falsy

\* search(current, is_target, get_children): the value returned and the
\* elements is_target was evaluated on, in order.
RECURSIVE search(_, _, _), searchLoop(_, _, _, _, _, _)
search(current, isT, getC) ==
    IF current \in isT
    THEN [ret |-> current, evals |-> <<current>>]
    ELSE searchLoop(getC[current], 1, None, <<current>>, isT, getC)

\* The for loop of search over items, from its i-th item on.
searchLoop(items, i, found, evals, isT, getC) ==
    IF i > Len(items)
    THEN [ret |-> found, evals |-> evals]
    ELSE LET r == search(items[i], isT, getC)
         IN IF Truthy(r.ret)
            THEN [ret |-> r.ret, evals |-> evals \o r.evals]
            ELSE searchLoop(items, i + 1, r.ret, evals \o r.evals, isT, getC)

SearchStart ==
    /\ \E p \in TreeParents : get_children = ChildrenOf(p)
    /\ is_target \in SUBSET Nodes
    /\ falsy \in SUBSET Nodes
    /\ s_call = None
    /\ s_ret = None
    /\ s_evals = <<>>

\* One call of search on the tree rooted at current.
Search(current) ==
    /\ s_call = None
    /\ LET r == search(current, is_target, get_children)
       IN /\ s_ret' = r.ret
          /\ s_evals' = r.evals
    /\ s_call' = current
    /\ UNCHANGED <<get_children, is_target, falsy>>

SearchIdle ==
    /\ get_children = <<>>
    /\ is_target = {}
    /\ falsy = {}
    /\ s_call = None
    /\ s_ret = None
    /\ s_evals = <<>>

(***************************************************************************)
(* get_node_of_type (src/utils.py 66-78)                                   *)
(***************************************************************************)
MaxTreeNodes == 3
MaxGroupNodes == 1

\* Node types; a node of type GROUP holds a node tree of its own.
PlainTypes == {"BSDF_PRINCIPLED", "OUTPUT_MATERIAL"}
NodeTypes == PlainTypes \cup {"GROUP"}

SeqsUpTo(S, n) == UNION {[1..k -> S] : k \in 0..n}

\* A node: its type and, for a group node, the types of the nodes of the
\* tree it holds.
NodeRecs ==
    {[type |-> t, node_tree |-> <<>>] : t \in PlainTypes}
    \cup {[type |-> "GROUP", node_tree |-> g] : g \in SeqsUpTo(PlainTypes, MaxGroupNodes)}

\* The for loop of get_node_of_type over nodes, from its i-th node on: the
\* node returned (its place in tree.nodes), or None.
RECURSIVE get_node_of_type_from(_, _, _)
get_node_of_type_from(nodes, type, i) ==
    IF i > Len(nodes) THEN None
    ELSE IF nodes[i].type = type THEN i
    ELSE get_node_of_type_from(nodes, type, i + 1)

\* A get_node_of_type whose loop does not stop at the first match.
get_node_of_type_last(nodes, type) ==
    LET hits == {i \in 1..Len(nodes) : nodes[i].type = type}
    IN IF hits = {} THEN None ELSE CHOOSE i \in hits : \A j \in hits : j <= i

get_node_of_type(nodes, type) == get_node_of_type_from(nodes, type, 1)

NodeStart ==
    /\ tree_nodes \in SeqsUpTo(NodeRecs, MaxTreeNodes)
    /\ n_call = <<>>
    /\ n_ret = None

NodeIdle ==
    /\ tree_nodes = <<>>
    /\ n_call = <<>>
    /\ n_ret = None

\* One call of get_node_of_type(tree, type).
GetNodeOfType(type) ==
    /\ n_call = <<>>
    /\ n_ret' = get_node_of_type(tree_nodes, type)
    /\ n_call' = <<type>>
    /\ UNCHANGED tree_nodes

(***************************************************************************)
(* find_shape_key_container (src/utils.py 160-171)                         *)
(***************************************************************************)
MaxKeys == 3
MaxMeshes == 2
MaxObjects == 2

\* Data blocks (meshes) and the objects that use them.
Meshes == 1..MaxMeshes
Objects == 1..MaxObjects

\* The for loop of find_shape_key_container over bpy.data.shape_keys, from
\* its i-th container on: the container returned (its place), or None.
RECURSIVE find_shape_key_container_from(_, _, _)
find_shape_key_container_from(keys, data, i) ==
    IF i > Len(keys) THEN None
    ELSE IF keys[i].user = data THEN i
    ELSE find_shape_key_container_from(keys, data, i + 1)

\* A find_shape_key_container that tests only the first container.
find_shape_key_container_head(keys, data) ==
    IF Len(keys) > 0 /\ keys[1].user = data THEN 1 ELSE None

find_shape_key_container(keys, data) == find_shape_key_container_from(keys, data, 1)

KeyStart ==
    /\ shape_keys \in SeqsUpTo({[user |-> m] : m \in Meshes}, MaxKeys)
    /\ obj_data \in [Objects -> Meshes]
    /\ k_called = {}
    /\ k_ret = [o \in Objects |-> None]

KeyIdle ==
    /\ shape_keys = <<>>
    /\ obj_data = <<>>
    /\ k_called = {}
    /\ k_ret = <<>>

\* One call of find_shape_key_container(obj).
FindShapeKeyContainer(obj) ==
    /\ obj \notin k_called
    /\ k_ret' = [k_ret EXCEPT ![obj] = find_shape_key_container(shape_keys, obj_data[obj])]
    /\ k_called' = k_called \cup {obj}
    /\ UNCHANGED <<shape_keys, obj_data>>

(***************************************************************************)
(* get_link (src/utils.py 148-157)                                         *)
(***************************************************************************)
MaxSockets == 3
MaxLinks == 2

SocketNames == {"Color", "Shader"}

\* The sockets of one side of a node, from the name and the number of links
\* of each: the k-th link of the j-th socket is a link of its own.
SocketsOf(side, shape) ==
    [j \in 1..Len(shape) |->
        [name |-> shape[j].name,
         links |-> [k \in 1..shape[j].n |-> side * 100 + j * 10 + k]]]

SocketShapes == [name : SocketNames, n : 0..MaxLinks]

\* sockets[socket_name]: the first socket of that name; 0 when there is none
\* (the lookup then raises KeyError).
RECURSIVE lookup_from(_, _, _)
lookup_from(sockets, socket_name, i) ==
    IF i > Len(sockets) THEN 0
    ELSE IF sockets[i].name = socket_name THEN i
    ELSE lookup_from(sockets, socket_name, i + 1)

\* A get_link that returns None where there is no such socket or no link.
get_link_or_none(ins, outs, socket_name, output) ==
    LET sockets == IF output THEN outs ELSE ins
        j == lookup_from(sockets, socket_name, 1)
    IN IF j = 0 \/ Len(sockets[j].links) = 0 THEN [kind |-> "return", link |-> None]
       ELSE [kind |-> "return", link |-> sockets[j].links[1]]

\* get_link(node, socket_name, output): the link returned, or the error the
\* call ends in.
get_link(ins, outs, socket_name, output) ==
    LET sockets == IF output THEN outs ELSE ins
        j == lookup_from(sockets, socket_name, 1)
    IN IF j = 0 THEN [kind |-> "KeyError", link |-> None]
       ELSE IF Len(sockets[j].links) = 0 THEN [kind |-> "IndexError", link |-> None]
       ELSE [kind |-> "return", link |-> sockets[j].links[1]]

LinkStart ==
    /\ \E si, so \in SeqsUpTo(SocketShapes, MaxSockets) :
        /\ Len(si) + Len(so) <= MaxSockets
        /\ inputs = SocketsOf(1, si)
        /\ outputs = SocketsOf(2, so)
    /\ l_call = <<>>
    /\ l_ret = [kind |-> "none", link |-> None]

LinkIdle ==
    /\ inputs = <<>>
    /\ outputs = <<>>
    /\ l_call = <<>>
    /\ l_ret = [kind |-> "none", link |-> None]

\* One call of get_link(node, socket_name, output).
GetLink(socket_name, output) ==
    /\ l_call = <<>>
    /\ l_ret' = get_link(inputs, outputs, socket_name, output)
    /\ l_call' = <<socket_name, output>>
    /\ UNCHANGED <<inputs, outputs>>

(***************************************************************************)
(* configure_cycles (src/utils.py 81-145)                                  *)
(***************************************************************************)
MaxDevices == 3
DefaultSamples == 4096
GpuTileSize == 256
OtherTileSize == 16

Modes == {"GPU", "CPU", "HYBRID", "OTHER"}
FeatureSets == {"SUPPORTED", "EXPERIMENTAL"}
ComputeDeviceTypes == {"CUDA", "OPTIX"}
DeviceTypes == {"CPU"} \cup ComputeDeviceTypes

\* has_active_device(): some enabled device is a GPU device.
has_active_device(devs) ==
    \E i \in 1..Len(devs) : devs[i].use /\ devs[i].type # "CPU"

\* (1) for device in cycles_prefs.devices: device.use = mode == "HYBRID"
RECURSIVE set_all_devices(_, _, _)
set_all_devices(devs, i, mode) ==
    IF i > Len(devs) THEN devs
    ELSE set_all_devices([devs EXCEPT ![i].use = (mode = "HYBRID")], i + 1, mode)

\* A probing loop that leaves each probed device enabled.
RECURSIVE probe_devices_sticky(_, _, _, _)
probe_devices_sticky(devs, i, mode, acc) ==
    IF i > Len(devs) THEN [devices |-> devs, devs |-> acc]
    ELSE LET on == [devs EXCEPT ![i].use = TRUE]
             wanted == \/ mode = "GPU" /\ has_active_device(on)
                       \/ mode = "CPU" /\ ~has_active_device(on)
         IN probe_devices_sticky(on, i + 1, mode,
                                 IF wanted THEN Append(acc, i) ELSE acc)

\* (2) each device in turn is enabled, tested with has_active_device() and
\* disabled again; the devices wanted are collected in devs.
RECURSIVE probe_devices(_, _, _, _)
probe_devices(devs, i, mode, acc) ==
    IF i > Len(devs) THEN [devices |-> devs, devs |-> acc]
    ELSE LET on == [devs EXCEPT ![i].use = TRUE]
             wanted == \/ mode = "GPU" /\ has_active_device(on)
                       \/ mode = "CPU" /\ ~has_active_device(on)
             off == [on EXCEPT ![i].use = FALSE]
         IN probe_devices(off, i + 1, mode,
                          IF wanted THEN Append(acc, i) ELSE acc)

\* (3) for dev in devs: dev.use = True
RECURSIVE enable_devices(_, _, _)
enable_devices(devs, wanted, k) ==
    IF k > Len(wanted) THEN devs
    ELSE enable_devices([devs EXCEPT ![wanted[k]].use = TRUE], wanted, k + 1)

\* Lines 128-145: the devices as configure_cycles leaves them.
configure_devices(devs, mode) ==
    LET cleared == set_all_devices(devs, 1, mode)
    IN IF mode = "HYBRID" THEN cleared
       ELSE LET p == probe_devices(cleared, 1, mode, <<>>)
            IN enable_devices(p.devices, p.devs, 1)

\* Lines 118-122: the compute_device_type configure_cycles applies.
applied_device_type(mode, device_type) ==
    IF mode = "CPU" \/ mode = "HYBRID" THEN "CUDA" ELSE device_type

\* Lines 104-116: the render settings configure_cycles applies.
applied_settings(mode, feature_set, samples, denoise) ==
    [samples |-> samples,
     use_denoising |-> denoise,
     device |-> IF mode = "GPU" \/ mode = "HYBRID" THEN "GPU" ELSE "CPU",
     feature_set |-> feature_set,
     tile_size |-> IF mode = "GPU" THEN GpuTileSize ELSE OtherTileSize]

CyclesStart ==
    /\ render_engine = "BLENDER_EEVEE"
    /\ cycles_settings = [samples |-> 128, use_denoising |-> FALSE, device |-> "CPU",
                          feature_set |-> "SUPPORTED", tile_size |-> 64]
    /\ compute_device_type = "NONE"
    /\ devices \in SeqsUpTo([type : DeviceTypes, use : BOOLEAN], MaxDevices)
    /\ c_call = <<>>

CyclesIdle ==
    /\ render_engine = "BLENDER_EEVEE"
    /\ cycles_settings = <<>>
    /\ compute_device_type = "NONE"
    /\ devices = <<>>
    /\ c_call = <<>>

\* One call of configure_cycles(context, mode, feature_set, device_type,
\* samples, denoise).
ConfigureCycles(mode, feature_set, device_type, samples, denoise) ==
    /\ c_call = <<>>
    /\ render_engine' = "CYCLES"
    /\ cycles_settings' = applied_settings(mode, feature_set, samples, denoise)
    /\ compute_device_type' = applied_device_type(mode, device_type)
    /\ devices' = configure_devices(devices, mode)
    /\ c_call' = <<mode, device_type>>

(***************************************************************************)
(* copy_collection and apply_suffix (src/utils.py 12-20, 45-63)            *)
(***************************************************************************)
MaxColls == 3
MaxCopyObjects == 2
RecursionLimit == 4

\* The suffixes passed: a string, and a number (apply_suffix takes Any).
Suffixes == {[t |-> "str", v |-> "copy"], [t |-> "int", v |-> 2]}

\* A name, as the string value it is.
Name(text) == [t |-> "str", v |-> text]

\* str(x): a string is itself, a number is its decimal digits.
str(x) == IF x.t = "int" THEN ToString(x.v) ELSE x.v

\* apply_suffix(s, suffix) = f"{str(s)}-{str(suffix)}"
apply_suffix(s, suffix) == Name(str(s) \o "-" \o str(suffix))

\* The collection trees: collection 1 is the root, every other collection
\* is a child of an earlier one, children in ascending order.
CollParents == {p \in [2..MaxColls -> 1..MaxColls] : \A i \in DOMAIN p : p[i] < i}

\* The host's data with the collections under parents p, object o linked
\* into collection home[o], objects 1 and 2 using the same data block when
\* shared and every object one of its own otherwise.
World(p, home, shared) ==
    [collections |->
        [c \in 1..MaxColls |->
            [name |-> Name("Coll" \o ToString(c)),
             objects |-> SortedSeq({o \in DOMAIN home : home[o] = c}),
             children |-> SortedSeq({i \in DOMAIN p : p[i] = c})]],
     objects |->
        [o \in 1..MaxCopyObjects |->
            [name |-> Name("Ob" \o ToString(o)),
             data |-> IF shared /\ o = 2 THEN 1 ELSE o]],
     meshes |-> [d \in 1..MaxCopyObjects |-> [content |-> d]]]

\* The host's data, as one value.
Data == [collections |-> bpy_collections, objects |-> bpy_objects, meshes |-> bpy_meshes]

\* A loop body that leaves the copy with the data block of the original.
copy_object_shared_data(d, f, suffix) ==
    LET obj == d.collections[f.src].objects[f.i]
        obj_dup == Len(d.objects) + 1
        copied == Append(d.objects, d.objects[obj])
        named == [copied EXCEPT ![obj_dup].name = apply_suffix(d.objects[obj].name, suffix)]
    IN [collections |->
            [d.collections EXCEPT ![f.dest].objects = Append(@, obj_dup)],
        objects |-> named,
        meshes |-> Append(d.meshes, d.meshes[d.objects[obj].data])]

\* The first loop's body (lines 55-58) for the object at place i of
\* src.objects: obj.copy(), obj.data.copy(), the new name, the link.
copy_object(d, f, suffix) ==
    LET obj == d.collections[f.src].objects[f.i]
        obj_dup == Len(d.objects) + 1
        copied == Append(d.objects, d.objects[obj])
        data_dup == Len(d.meshes) + 1
        meshes == Append(d.meshes, d.meshes[d.objects[obj].data])
        withData == [copied EXCEPT ![obj_dup].data = data_dup]
        named == [withData EXCEPT ![obj_dup].name = apply_suffix(d.objects[obj].name, suffix)]
    IN [collections |->
            [d.collections EXCEPT ![f.dest].objects = Append(@, obj_dup)],
        objects |-> named,
        meshes |-> meshes]

\* A loop body that links the new collection into src, not dest.
copy_child_into_src(d, f, suffix) ==
    LET coll == d.collections[f.src].children[f.j]
        coll_dup == Len(d.collections) + 1
        created == Append(d.collections,
                          [name |-> apply_suffix(d.collections[coll].name, suffix),
                           objects |-> <<>>, children |-> <<>>])
    IN [d EXCEPT !.collections = [created EXCEPT ![f.src].children = Append(@, coll_dup)]]

\* The second loop's body up to the recursive call (lines 61-62) for the
\* collection at place j of src.children: the new collection and its link.
copy_child(d, f, suffix) ==
    LET coll == d.collections[f.src].children[f.j]
        coll_dup == Len(d.collections) + 1
        created == Append(d.collections,
                          [name |-> apply_suffix(d.collections[coll].name, suffix),
                           objects |-> <<>>, children |-> <<>>])
    IN [d EXCEPT !.collections = [created EXCEPT ![f.dest].children = Append(@, coll_dup)]]

CopyStart ==
    /\ \E p \in CollParents, home \in [1..MaxCopyObjects -> 1..MaxColls], shared \in BOOLEAN :
        LET w == World(p, home, shared)
        IN /\ bpy_collections = w.collections
           /\ bpy_objects = w.objects
           /\ bpy_meshes = w.meshes
    /\ stack = <<>>
    /\ cp_state = "idle"
    /\ cp_call = <<>>
    /\ cp_before = <<>>

CopyIdle ==
    /\ bpy_collections = <<>>
    /\ bpy_objects = <<>>
    /\ bpy_meshes = <<>>
    /\ stack = <<>>
    /\ cp_state = "idle"
    /\ cp_call = <<>>
    /\ cp_before = <<>>

\* The frame that is running.
Top == stack[Len(stack)]

\* copy_collection(src, dest, suffix) is called: its frame starts at the
\* first object of src.  A dest that is src itself is left out: the loops
\* would link into the collection they iterate.
CopyCall(src, dest, suffix) ==
    /\ cp_state = "idle"
    /\ src # dest
    /\ stack' = <<[src |-> src, dest |-> dest, i |-> 1, j |-> 1]>>
    /\ cp_state' = "running"
    /\ cp_call' = [src |-> src, dest |-> dest, suffix |-> suffix]
    /\ cp_before' = Data
    /\ UNCHANGED <<bpy_collections, bpy_objects, bpy_meshes, notCopyVars>>

\* One pass of the loop over src.objects (lines 54-58).
CopyObject ==
    /\ cp_state = "running"
    /\ Top.i <= Len(bpy_collections[Top.src].objects)
    /\ LET d == copy_object(Data, Top, cp_call.suffix)
       IN /\ bpy_collections' = d.collections
          /\ bpy_objects' = d.objects
          /\ bpy_meshes' = d.meshes
    /\ stack' = [stack EXCEPT ![Len(stack)].i = @ + 1]
    /\ UNCHANGED <<cp_state, cp_call, cp_before, notCopyVars>>

\* One pass of the loop over src.children (lines 60-63): the new collection
\* is linked and copy_collection is called on it; past the recursion limit
\* the call raises RecursionError, which nothing catches.
CopyChild ==
    /\ cp_state = "running"
    /\ Top.i > Len(bpy_collections[Top.src].objects)
    /\ Top.j <= Len(bpy_collections[Top.src].children)
    /\ LET d == copy_child(Data, Top, cp_call.suffix)
           coll == bpy_collections[Top.src].children[Top.j]
           coll_dup == Len(bpy_collections) + 1
       IN /\ bpy_collections' = d.collections
          /\ IF Len(stack) < RecursionLimit
             THEN /\ stack' = Append([stack EXCEPT ![Len(stack)].j = @ + 1],
                                     [src |-> coll, dest |-> coll_dup, i |-> 1, j |-> 1])
                  /\ UNCHANGED cp_state
             ELSE /\ stack' = <<>>
                  /\ cp_state' = "RecursionError"
    /\ UNCHANGED <<bpy_objects, bpy_meshes, cp_call, cp_before, notCopyVars>>

\* Both loops are over: the frame returns.
CopyReturn ==
    /\ cp_state = "running"
    /\ Top.i > Len(bpy_collections[Top.src].objects)
    /\ Top.j > Len(bpy_collections[Top.src].children)
    /\ stack' = SubSeq(stack, 1, Len(stack) - 1)
    /\ cp_state' = IF Len(stack) = 1 THEN "done" ELSE "running"
    /\ UNCHANGED <<bpy_collections, bpy_objects, bpy_meshes, cp_call, cp_before, notCopyVars>>

(***************************************************************************)
(* The specifications, one per function                                     *)
(***************************************************************************)
SearchInit == SearchStart /\ NodeIdle /\ KeyIdle /\ LinkIdle /\ CyclesIdle /\ CopyIdle
SearchNext ==
    /\ \E current \in Nodes : Search(current)
    /\ UNCHANGED <<nodeVars, keyVars, linkVars, cyclesVars, copyVars>>
SpecSearch == SearchInit /\ [][SearchNext]_vars

NodeInit == NodeStart /\ SearchIdle /\ KeyIdle /\ LinkIdle /\ CyclesIdle /\ CopyIdle
NodeNext ==
    /\ \E type \in NodeTypes : GetNodeOfType(type)
    /\ UNCHANGED <<searchVars, keyVars, linkVars, cyclesVars, copyVars>>
SpecNode == NodeInit /\ [][NodeNext]_vars

KeyInit == KeyStart /\ SearchIdle /\ NodeIdle /\ LinkIdle /\ CyclesIdle /\ CopyIdle
KeyNext ==
    /\ \E obj \in Objects : FindShapeKeyContainer(obj)
    /\ UNCHANGED <<searchVars, nodeVars, linkVars, cyclesVars, copyVars>>
SpecKey == KeyInit /\ [][KeyNext]_vars

LinkInit == LinkStart /\ SearchIdle /\ NodeIdle /\ KeyIdle /\ CyclesIdle /\ CopyIdle
LinkNext ==
    /\ \E socket_name \in SocketNames \cup {"Alpha"}, output \in BOOLEAN :
        GetLink(socket_name, output)
    /\ UNCHANGED <<searchVars, nodeVars, keyVars, cyclesVars, copyVars>>
SpecLink == LinkInit /\ [][LinkNext]_vars

CyclesInit == CyclesStart /\ SearchIdle /\ NodeIdle /\ KeyIdle /\ LinkIdle /\ CopyIdle
CyclesNext ==
    /\ \E mode \in Modes, feature_set \in FeatureSets,
          device_type \in ComputeDeviceTypes, samples \in {DefaultSamples, 128},
          denoise \in BOOLEAN :
        ConfigureCycles(mode, feature_set, device_type, samples, denoise)
    /\ UNCHANGED <<searchVars, nodeVars, keyVars, linkVars, copyVars>>
SpecCycles == CyclesInit /\ [][CyclesNext]_vars

CopyInit == CopyStart /\ SearchIdle /\ NodeIdle /\ KeyIdle /\ LinkIdle /\ CyclesIdle
CopyNext ==
    \/ \E src, dest \in 1..MaxColls, suffix \in Suffixes : CopyCall(src, dest, suffix)
    \/ CopyObject
    \/ CopyChild
    \/ CopyReturn
\* The interpreter runs a call to its end: a step that can be taken is taken.
SpecCopy == CopyInit /\ [][CopyNext]_vars /\ WF_vars(CopyNext)

(***************************************************************************)
(* The claims                                                              *)
(***************************************************************************)

\* The nodes of the tree rooted at n, in pre-order.
RECURSIVE PreOrder(_), PreOrderAll(_, _)
PreOrder(n) == <<n>> \o PreOrderAll(get_children[n], 1)
PreOrderAll(items, i) ==
    IF i > Len(items) THEN <<>>
    ELSE PreOrder(items[i]) \o PreOrderAll(items, i + 1)

\* The first element of sequence s that is in set S, None when there is none.
FirstIn(s, S) ==
    IF \E i \in 1..Len(s) : s[i] \in S
    THEN s[CHOOSE i \in 1..Len(s) : s[i] \in S /\ \A j \in 1..(i - 1) : s[j] \notin S]
    ELSE None

\* C1: search returns a node of the tree rooted at current that satisfies
\* is_target whenever there is one, and None when there is none, for every
\* element type, elements whose truth value is false included.
SearchFindsTarget ==
    s_call # None =>
        LET tree == Range(PreOrder(s_call))
        IN IF tree \cap is_target # {}
           THEN s_ret \in tree \cap is_target
           ELSE s_ret = None

\* C8: search returns the first node in pre-order that satisfies is_target
\* and evaluates is_target on no node after it: the nodes evaluated are the
\* pre-order up to and including the returned node.
SearchPreOrderFirst ==
    s_call # None =>
        LET order == PreOrder(s_call)
            first == FirstIn(order, is_target)
        IN /\ s_ret = first
           /\ first # None =>
                \E k \in 1..Len(order) :
                    order[k] = first /\ s_evals = SubSeq(order, 1, k)

\* With every element's truth value true, search does both.
SearchTruthyOnly ==
    (s_call # None /\ falsy = {}) => SearchFindsTarget /\ SearchPreOrderFirst

\* C5: get_node_of_type returns the first node of tree.nodes, in iteration
\* order, whose type is the given type, and None when no node directly in
\* tree.nodes has it (nodes inside a group node's own tree do not count); it
\* changes nothing.
GetNodeOfTypeFirst ==
    /\ [](n_call # <<>> =>
            LET hits == {i \in 1..Len(tree_nodes) : tree_nodes[i].type = n_call[1]}
            IN IF hits = {} THEN n_ret = None
               ELSE n_ret \in hits /\ \A j \in hits : n_ret <= j)
    /\ [][tree_nodes' = tree_nodes]_vars

\* A call that passes a group node holding a node of the type, and returns
\* the first of the two nodes of the type that follow it.
GetNodeOfTypeFirstCase ==
    /\ n_call # <<>>
    /\ Len(tree_nodes) = 3
    /\ tree_nodes[1].node_tree = <<n_call[1]>>
    /\ tree_nodes[3].type = n_call[1]
    /\ n_ret = 2

\* A call that returns None although a group node holds a node of the type.
GetNodeOfTypeNoneCase ==
    /\ n_call # <<>>
    /\ n_ret = None
    /\ \E i \in 1..Len(tree_nodes) : tree_nodes[i].node_tree = <<n_call[1]>>

\* C6: find_shape_key_container returns the first container of
\* bpy.data.shape_keys, in iteration order, whose user is obj.data, and None
\* when no container has it as user; two objects with the same data get the
\* same container.
ShapeKeyContainerFirst ==
    /\ \A o \in k_called :
        LET hits == {i \in 1..Len(shape_keys) : shape_keys[i].user = obj_data[o]}
        IN IF hits = {} THEN k_ret[o] = None
           ELSE k_ret[o] \in hits /\ \A j \in hits : k_ret[o] <= j
    /\ \A o1, o2 \in k_called : obj_data[o1] = obj_data[o2] => k_ret[o1] = k_ret[o2]

\* Two objects sharing their data, both looked up, the container found after
\* a container of another user and before a second container of theirs.
ShapeKeyContainerFirstCase ==
    /\ k_called = Objects
    /\ obj_data[1] = obj_data[2]
    /\ k_ret[1] = 2
    /\ Len(shape_keys) = 3
    /\ shape_keys[3].user = obj_data[1]

\* C7: get_link looks the socket up among node.inputs when output is False
\* and among node.outputs when output is True and returns that socket's
\* first link; with no such socket on that side, or no link on the socket,
\* the call ends in an error and never returns an absent result; the node's
\* sockets and links are unchanged.
GetLinkFirstOrError ==
    /\ [](l_call # <<>> =>
            LET sockets == IF l_call[2] THEN outputs ELSE inputs
                named == {j \in 1..Len(sockets) : sockets[j].name = l_call[1]}
                first == CHOOSE j \in named : \A k \in named : j <= k
            IN IF named # {} /\ Len(sockets[first].links) > 0
               THEN l_ret = [kind |-> "return", link |-> sockets[first].links[1]]
               ELSE l_ret.kind \in {"KeyError", "IndexError"})
    /\ [][inputs' = inputs /\ outputs' = outputs]_vars

\* A call for an input socket that has no link, ending in an error, on a
\* node with an output socket of the same name that has two links.
GetLinkFirstOrErrorCase ==
    /\ l_call # <<>>
    /\ ~l_call[2]
    /\ Len(inputs) = 2 /\ Len(outputs) = 1
    /\ inputs[1].name # l_call[1]
    /\ inputs[2].name = l_call[1]
    /\ Len(inputs[2].links) = 0
    /\ outputs[1].name = l_call[1]
    /\ Len(outputs[1].links) = 2
    /\ l_ret.kind = "IndexError"

\* A call for an output socket, returning the first of its two links.
GetLinkReturnCase ==
    /\ l_call # <<>>
    /\ l_call[2]
    /\ Len(outputs) = 2
    /\ outputs[2].name = l_call[1]
    /\ outputs[1].name # l_call[1]
    /\ Len(outputs[2].links) = 2
    /\ l_ret = [kind |-> "return", link |-> outputs[2].links[1]]

\* A call for a socket name the selected side does not have.
GetLinkKeyErrorCase ==
    /\ l_call # <<>>
    /\ ~l_call[2]
    /\ Len(outputs) > 0
    /\ outputs[1].name = l_call[1]
    /\ Len(outputs[1].links) > 0
    /\ l_ret.kind = "KeyError"

\* The devices with use = True.
EnabledDevices == {i \in 1..Len(devices) : devices[i].use}
GpuDevices == {i \in 1..Len(devices) : devices[i].type # "CPU"}
CpuDevices == {i \in 1..Len(devices) : devices[i].type = "CPU"}

\* C3: with has_active_device() meaning 'some enabled device is a GPU
\* device', configure_cycles leaves enabled exactly the GPU devices in mode
\* GPU, exactly the CPU devices in mode CPU, and all devices in mode HYBRID,
\* whatever the devices' use flags were.
CyclesEnablesDesiredDevices ==
    c_call # <<>> =>
        /\ c_call[1] = "GPU" => EnabledDevices = GpuDevices
        /\ c_call[1] = "CPU" => EnabledDevices = CpuDevices
        /\ c_call[1] = "HYBRID" => EnabledDevices = 1..Len(devices)

\* A call in mode GPU with a CPU device between two GPU devices, of which
\* the two GPU devices are left enabled.
CyclesEnablesDesiredDevicesCase ==
    /\ c_call # <<>>
    /\ c_call[1] = "GPU"
    /\ Len(devices) = 3
    /\ devices[1].type = "CUDA" /\ devices[2].type = "CPU" /\ devices[3].type = "OPTIX"
    /\ EnabledDevices = {1, 3}

\* C4: after configure_cycles, compute_device_type is the device_type
\* argument in every mode other than HYBRID, and CUDA in mode HYBRID.
CyclesAppliesDeviceType ==
    c_call # <<>> =>
        IF c_call[1] = "HYBRID"
        THEN compute_device_type = "CUDA"
        ELSE compute_device_type = c_call[2]

\* What the code does: CUDA in the modes CPU and HYBRID, device_type in the
\* others.
CyclesDeviceTypeAsCoded ==
    c_call # <<>> =>
        IF c_call[1] \in {"CPU", "HYBRID"}
        THEN compute_device_type = "CUDA"
        ELSE compute_device_type = c_call[2]

\* The collections of the tree rooted at c, as the data d has them.
RECURSIVE SubtreeOf(_, _), SubtreeOfAll(_, _, _)
SubtreeOf(d, c) == {c} \cup SubtreeOfAll(d, d.collections[c].children, 1)
SubtreeOfAll(d, items, i) ==
    IF i > Len(items) THEN {}
    ELSE SubtreeOf(d, items[i]) \cup SubtreeOfAll(d, items, i + 1)

\* copy_collection was called with a dest that is neither src nor a
\* descendant of src.
CopyPre == cp_call # <<>> /\ cp_call.dest \notin SubtreeOf(cp_before, cp_call.src)

\* How many links to x the collections hold in their field f (objects or
\* children).
Links(colls, x, f) ==
    Cardinality({ck \in (1..Len(colls)) \X (1..(Len(colls) + Len(bpy_objects))) :
                    ck[2] <= Len(colls[ck[1]][f]) /\ colls[ck[1]][f][ck[2]] = x})

\* Collection d holds, after its first no objects and nc children, a mirror
\* of collection s: one new object per object of s, in order, named with
\* the suffix and using a new data block with the content of the original's;
\* one new collection per child of s, in order, named with the suffix and
\* mirroring that child; and nothing more.
RECURSIVE Mirrors(_, _, _, _)
Mirrors(s, d, no, nc) ==
    LET so == bpy_collections[s].objects
        sc == bpy_collections[s].children
        dobj == bpy_collections[d].objects
        dch == bpy_collections[d].children
    IN /\ Len(dobj) = no + Len(so)
       /\ \A k \in 1..Len(so) :
            LET n == dobj[no + k]
                o == so[k]
            IN /\ n > Len(cp_before.objects)
               /\ bpy_objects[n].name.v = bpy_objects[o].name.v \o "-" \o str(cp_call.suffix)
               /\ bpy_objects[n].data > Len(cp_before.meshes)
               /\ bpy_objects[n].data # bpy_objects[o].data
               /\ bpy_meshes[bpy_objects[n].data] = bpy_meshes[bpy_objects[o].data]
       /\ Len(dch) = nc + Len(sc)
       /\ \A k \in 1..Len(sc) :
            LET n == dch[nc + k]
                c == sc[k]
            IN /\ n > Len(cp_before.collections)
               /\ bpy_collections[n].name.v = bpy_collections[c].name.v \o "-" \o str(cp_call.suffix)
               /\ Mirrors(c, n, 0, 0)

\* C2: after copy_collection(src, dest, suffix) with dest neither src nor a
\* descendant of src, dest holds what it held before followed by a mirror of
\* src: per object of src exactly one new object named <name>-<suffix> with
\* a fresh copy of its data, per child collection exactly one new collection
\* named <name>-<suffix> that mirrors the child in the same way, and nothing
\* else.
CopyMirrorsSource ==
    (CopyPre /\ cp_state = "done") =>
        LET dest == cp_call.dest
            was == cp_before.collections[dest]
        IN /\ SubSeq(bpy_collections[dest].objects, 1, Len(was.objects)) = was.objects
           /\ SubSeq(bpy_collections[dest].children, 1, Len(was.children)) = was.children
           /\ Mirrors(cp_call.src, dest, Len(was.objects), Len(was.children))
           \* each new object, data block and collection is used exactly once
           /\ \A n \in (Len(cp_before.objects) + 1)..Len(bpy_objects) :
                Links(bpy_collections, n, "objects") = 1
           /\ \A m \in (Len(cp_before.meshes) + 1)..Len(bpy_meshes) :
                Cardinality({o \in 1..Len(bpy_objects) : bpy_objects[o].data = m}) = 1
           /\ \A n \in (Len(cp_before.collections) + 1)..Len(bpy_collections) :
                Links(bpy_collections, n, "children") = 1

\* A finished copy of a collection that holds two objects using the same
\* data block and a child collection, into a collection that held an object
\* or a child before.
CopyMirrorsSourceCase ==
    /\ CopyPre
    /\ cp_state = "done"
    /\ cp_call.suffix.t = "int"
    /\ LET src == cp_before.collections[cp_call.src]
           dest == cp_before.collections[cp_call.dest]
       IN /\ Len(src.objects) = 2
          /\ cp_before.objects[1].data = cp_before.objects[2].data
          /\ Len(src.children) = 1
          /\ Len(dest.children) > 0

\* The source side is as it was when copy_collection was called: every
\* collection but dest, every object and every data block that existed.
SourceUntouched ==
    /\ \A c \in 1..Len(cp_before.collections) :
        c # cp_call.dest => bpy_collections[c] = cp_before.collections[c]
    /\ bpy_collections[cp_call.dest].name = cp_before.collections[cp_call.dest].name
    /\ \A o \in 1..Len(cp_before.objects) : bpy_objects[o] = cp_before.objects[o]
    /\ \A m \in 1..Len(cp_before.meshes) : bpy_meshes[m] = cp_before.meshes[m]

\* C9: copy_collection(src, dest, suffix) with dest neither src nor a
\* descendant of src terminates, and src, the collections of its subtree and
\* every original object and data block are as before: all changes are to
\* dest and to newly created objects and collections.
CopyTerminatesSourceUntouched ==
    /\ [](CopyPre => SourceUntouched /\ cp_state # "RecursionError")
    /\ (CopyPre ~> cp_state = "done")

\* A finished copy of a collection with an object and a child collection
\* that has an object and a child of its own, into the parent of src.
CopyTerminatesSourceUntouchedCase ==
    /\ CopyPre
    /\ cp_state = "done"
    /\ LET src == cp_before.collections[cp_call.src]
       IN /\ Len(src.objects) = 1
          /\ Len(src.children) = 1
          /\ Len(cp_before.collections[src.children[1]].objects) = 1
          /\ cp_call.src \in Range(cp_before.collections[cp_call.dest].children)

\* A call with dest a descendant of src does not end: it recurses until
\* RecursionError.
CopyIntoDescendantRecurses ==
    (cp_call # <<>> /\ ~CopyPre) => cp_state # "done"
====
